---- MODULE Spec2Model ----
(***************************************************************************)
(* Model of gohttptest.Test (src/gohttptest.go): an HTTP benchmark that    *)
(* pre-fills a closed channel with count_r job tokens, runs count_p worker *)
(* goroutines that drain it and send one result per request on a buffered  *)
(* channel, closes that channel once the WaitGroup reaches zero, and       *)
(* aggregates the results in the calling goroutine.                        *)
(*                                                                         *)
(* Goroutines are interleaved at their synchronisation points: a channel   *)
(* receive or send, the select on ctx.Done(), the return of client.Do,     *)
(* wg.Wait and close.  Durations are in seconds.                           *)
(***************************************************************************)
EXTENDS Integers, Sequences, FiniteSets, TLC

\* ---------------------------------------------------------------- bounds
MaxRequests == 2      \* largest count_r drawn
MaxWorkers  == 2      \* largest count_p drawn
MaxDuration == 1      \* longest measured request duration in a whole run
MaxBody     == 1      \* most bytes io.ReadAll obtains from a body
MaxElapsed  == 1      \* longest measured time of the whole run
MaxListDuration == 2  \* longest duration in a list handed to the statistics
MaxLen      == 6      \* longest duration list, every arrival order drawn
MaxLongLen  == 101    \* longest duration list, one arrival order drawn

\* ------------------------------------------------------ program constants
Hour       == 3600    \* initial minDuration = time.Hour
FailStatus == 400     \* res.StatusCode >= 400 counts as failed

\* ---------------------------------------------------------------- inputs
Sites     == {"", ":bad", "a.io", "a.com", "http://a.com"}
Counts(m) == (-1)..m
Workers   == 1..MaxWorkers
Durations == 1..MaxDuration
Statuses  == {200, 400}

VARIABLES
  site, count_p, count_r,       \* parameters of Test (site is reassigned)
  mainpc,                       \* position of the goroutine running Test
  crashed,                      \* the process died of a runtime panic
  ctxDone,                      \* ctx.Done() is closed (cancel was called)
  sigChan, sigpc,               \* buffered signal channel and its goroutine
  jobs, jobsClosed,             \* jobs channel: buffered tokens, closed flag
  results, resultsClosed,       \* results channel: buffered results, closed
  wg,                           \* sync.WaitGroup counter
  spawned,                      \* loop variable i of the spawning loop
  pc, held, srv, pending,       \* per worker: position, token, answer, result
  watcherpc,                    \* goroutine running wg.Wait(); close(results)
  emitted,                      \* number of sends performed on results
  totalRequests, successCount, failedCount,
  totalDuration, minDuration, maxDuration, durations, totalBytes,
  p50, p90, p95, p99,
  report,                       \* what Test printed: the lines and the values
  inflightAtCancel,             \* history: requests in flight when cancel() ran
  takenAfterCancel              \* history: tokens each worker took once ctx done

params    == <<site, count_p, count_r>>
chans     == <<jobs, jobsClosed, results, resultsClosed, emitted>>
sigvars   == <<sigChan, sigpc>>
workvars  == <<pc, held, srv, pending>>
collvars  == <<totalRequests, successCount, failedCount, totalDuration,
               minDuration, maxDuration, durations, totalBytes>>
pctvars   == <<p50, p90, p95, p99>>
hist      == <<inflightAtCancel, takenAfterCancel>>
vars      == <<params, mainpc, crashed, ctxDone, sigvars, chans, wg, spawned,
               workvars, watcherpc, collvars, pctvars, report, hist>>

\* ------------------------------------------------------------- data types
\* type result struct { StatusCode; Duration; Bytes; Error }
\* Error is "nil" or the kind of failure that produced it.
result(status, duration, bytes, err) ==
  [StatusCode |-> status, Duration |-> duration, Bytes |-> bytes, Error |-> err]

NoResult == result(0, 0, 0, "none")     \* worker holds no result to send
NoAnswer == [kind |-> "none"]           \* worker has no request in flight
NoReport == [lines |-> {}]              \* nothing is printed yet

\* What the network and the server do with one request when nothing aborts
\* it: a transport failure or timeout, or a response with a status code and a
\* body of which ReadAll obtains `read` bytes before it meets the end of the
\* body or, when readErr, an error.
Answers ==
  {[kind |-> "fail"]} \cup
  [kind : {"resp"}, status : Statuses, read : 0..MaxBody, readErr : BOOLEAN]

Init ==
  /\ site \in Sites
  /\ count_p \in Counts(MaxWorkers)
  /\ count_r \in Counts(MaxRequests)
  /\ mainpc = "entry"
  /\ crashed = FALSE
  /\ ctxDone = FALSE
  /\ sigChan = 0
  /\ sigpc = "none"
  /\ jobs = <<>>
  /\ jobsClosed = FALSE
  /\ results = <<>>
  /\ resultsClosed = FALSE
  /\ wg = 0
  /\ spawned = 0
  /\ pc = [w \in Workers |-> "idle"]
  /\ held = [w \in Workers |-> 0]
  /\ srv = [w \in Workers |-> NoAnswer]
  /\ pending = [w \in Workers |-> NoResult]
  /\ watcherpc = "none"
  /\ emitted = 0
  /\ totalRequests = 0
  /\ successCount = 0
  /\ failedCount = 0
  /\ totalDuration = 0
  /\ minDuration = Hour
  /\ maxDuration = 0
  /\ durations = <<>>
  /\ totalBytes = 0
  /\ p50 = 0 /\ p90 = 0 /\ p95 = 0 /\ p99 = 0
  /\ report = NoReport
  /\ inflightAtCancel = 0
  /\ takenAfterCancel = [w \in Workers |-> 0]

\* ------------------------------------------------------------ Test, entry
\* if site == "" || count_p == 0 || count_r == 0
InvalidArgs(s, p, r) == s = "" \/ p = 0 \/ r = 0

\* if len(site) > 4 && site[:4] != "http" { site = "http://" + site }
Normalize(s) ==
  IF Len(s) > 4 /\ SubSeq(s, 1, 4) # "http" THEN "http://" \o s ELSE s

\* http.NewRequestWithContext fails on a URL that does not parse; of the
\* sites drawn, that is the one starting with a colon (missing scheme).
NewRequestFails(url) == Len(url) > 0 /\ SubSeq(url, 1, 1) = ":"

\* client.Do only speaks http and https; any other URL is a transport error.
SchemeSupported(url) ==
  \/ Len(url) >= 7 /\ SubSeq(url, 1, 7) = "http://"
  \/ Len(url) >= 8 /\ SubSeq(url, 1, 8) = "https://"

AnswersFor(url) ==
  IF SchemeSupported(url) THEN Answers ELSE {[kind |-> "fail"]}

\* Lines 54-57: for range count_r { jobs <- struct{}{} }.  The tokens are
\* indistinguishable in the program; the model numbers them by position in the
\* buffer so that a delivery can be told from another.
FilledJobs_OneShort(n) == [i \in 1..(n - 1) |-> i]
FilledJobs(n) == [i \in 1..n |-> i]

\* Lines 23-27: the arguments are rejected, Test returns.
Reject ==
  /\ mainpc = "entry"
  /\ InvalidArgs(site, count_p, count_r)
  /\ mainpc' = "returned"
  /\ UNCHANGED <<params, crashed, ctxDone, sigvars, chans, wg, spawned,
                 workvars, watcherpc, collvars, pctvars, report, hist>>

\* Lines 29-58: normalise the URL, create the context, register the signal
\* channel and start its goroutine, make the results channel, fill and close
\* the jobs channel.  make(chan result, count_r) panics on a negative size;
\* the deferred cancel() runs while the panic unwinds.
Start ==
  /\ mainpc = "entry"
  /\ ~InvalidArgs(site, count_p, count_r)
  /\ site' = Normalize(site)
  /\ sigpc' = "waiting"
  /\ IF count_r < 0
       THEN /\ crashed' = TRUE
            /\ ctxDone' = TRUE
            /\ mainpc' = "panic"
            /\ UNCHANGED <<jobs, jobsClosed>>
       ELSE /\ jobs' = FilledJobs(count_r)
            /\ jobsClosed' = TRUE
            /\ mainpc' = "spawn"
            /\ UNCHANGED <<crashed, ctxDone>>
  /\ UNCHANGED <<count_p, count_r, sigChan, results, resultsClosed, emitted,
                 wg, spawned, workvars, watcherpc, collvars, pctvars, report, hist>>

\* ------------------------------------------------------------ cancellation
\* The operating system delivers an interrupt; signal.Notify does a
\* non-blocking send on sigChan (capacity 1), dropping it when full.
Interrupt ==
  /\ ~crashed
  /\ sigpc # "none"
  /\ sigChan = 0
  /\ sigChan' = 1
  /\ UNCHANGED <<params, mainpc, crashed, ctxDone, sigpc, chans, wg, spawned,
                 workvars, watcherpc, collvars, pctvars, report, hist>>

\* Lines 43-47: go func() { <-sigChan; cancel() }()
SigHandler ==
  /\ ~crashed
  /\ sigpc = "waiting"
  /\ sigChan = 1
  /\ sigChan' = 0
  /\ sigpc' = "done"
  /\ ctxDone' = TRUE
  /\ inflightAtCancel' = Cardinality({w \in Workers : pc[w] = "inflight"})
  /\ UNCHANGED <<params, mainpc, crashed, chans, wg, spawned, workvars,
                 watcherpc, collvars, pctvars, report, takenAfterCancel>>

\* ---------------------------------------------------------------- spawning
\* Lines 60-62, 110: wg.Add(1); go func(workerID int) {...}(i)
SpawnWorker ==
  /\ ~crashed
  /\ mainpc = "spawn"
  /\ spawned < count_p
  /\ wg' = wg + 1
  /\ pc' = [pc EXCEPT ![spawned + 1] = "range"]
  /\ spawned' = spawned + 1
  /\ UNCHANGED <<params, mainpc, crashed, ctxDone, sigvars, chans, held, srv,
                 pending, watcherpc, collvars, pctvars, report, hist>>

\* Lines 112-115: the spawning loop is over; go func() { wg.Wait(); ... }()
SpawnWatcher ==
  /\ ~crashed
  /\ mainpc = "spawn"
  /\ spawned >= count_p
  /\ watcherpc' = "waiting"
  /\ mainpc' = "collect"
  /\ UNCHANGED <<params, crashed, ctxDone, sigvars, chans, wg, spawned,
                 workvars, collvars, pctvars, report, hist>>

\* ----------------------------------------------------------------- workers
\* Line 63: defer wg.Done()
WgDone_Forgotten(n) == n
WgDone(n) == n - 1

\* Line 71: case <-ctx.Done() is ready
CtxIsDone_Never(done) == FALSE
CtxIsDone(done) == done

\* Lines 83, 95, 107: after the send the loop goes on to the next token.
AfterSend_ReturnOnError(r) == IF r.Error # "nil" THEN "done" ELSE "range"
AfterSend(r) == "range"

\* Line 69: what the receive leaves in the buffer of jobs.
JobsAfterTake_Peek(q) == q
JobsAfterTake(q) == Tail(q)

\* Line 69, `for range jobs`: receive the token at the head of the buffer.
TakeJob(w) ==
  /\ ~crashed
  /\ pc[w] = "range"
  /\ jobs # <<>>
  /\ held' = [held EXCEPT ![w] = Head(jobs)]
  /\ jobs' = JobsAfterTake(jobs)
  /\ pc' = [pc EXCEPT ![w] = "select"]
  /\ takenAfterCancel' =
       [takenAfterCancel EXCEPT ![w] = @ + (IF ctxDone THEN 1 ELSE 0)]
  /\ UNCHANGED <<params, mainpc, crashed, ctxDone, sigvars, jobsClosed,
                 results, resultsClosed, emitted, wg, spawned, srv, pending,
                 watcherpc, collvars, pctvars, report, inflightAtCancel>>

\* Line 69, 63: jobs is closed and empty, the loop ends; deferred wg.Done().
JobsDrained(w) ==
  /\ ~crashed
  /\ pc[w] = "range"
  /\ jobs = <<>>
  /\ jobsClosed
  /\ pc' = [pc EXCEPT ![w] = "done"]
  /\ wg' = WgDone(wg)
  /\ UNCHANGED <<params, mainpc, crashed, ctxDone, sigvars, chans, spawned,
                 held, srv, pending, watcherpc, collvars, pctvars, report, hist>>

ObserveCancel_Continue(w) ==
  /\ ~crashed
  /\ pc[w] = "select"
  /\ CtxIsDone(ctxDone)
  /\ pc' = [pc EXCEPT ![w] = "range"]
  /\ held' = [held EXCEPT ![w] = 0]
  /\ UNCHANGED <<params, mainpc, crashed, ctxDone, sigvars, chans, wg,
                 spawned, srv, pending, watcherpc, collvars, pctvars, report, hist>>

\* Lines 70-72, 63: case <-ctx.Done(): return; deferred wg.Done().  The token
\* received for this iteration is discarded.
ObserveCancel(w) ==
  /\ ~crashed
  /\ pc[w] = "select"
  /\ CtxIsDone(ctxDone)
  /\ pc' = [pc EXCEPT ![w] = "stopped"]
  /\ held' = [held EXCEPT ![w] = 0]
  /\ wg' = WgDone(wg)
  /\ UNCHANGED <<params, mainpc, crashed, ctxDone, sigvars, chans, spawned,
                 srv, pending, watcherpc, collvars, pctvars, report, hist>>

\* Lines 73-84: default branch, NewRequestWithContext returns an error; the
\* result to send has status 0 and the error.
BuildFails(w) ==
  /\ ~crashed
  /\ pc[w] = "select"
  /\ ~CtxIsDone(ctxDone)
  /\ NewRequestFails(site)
  /\ \E d \in Durations :
       pending' = [pending EXCEPT ![w] = result(0, d, 0, "build")]
  /\ pc' = [pc EXCEPT ![w] = "send"]
  /\ UNCHANGED <<params, mainpc, crashed, ctxDone, sigvars, chans, wg,
                 spawned, held, srv, watcherpc, collvars, pctvars, report, hist>>

\* Lines 73-76, 86: default branch, the request is built and client.Do is
\* called; the network decides what this request will meet.
BeginRequest(w) ==
  /\ ~crashed
  /\ pc[w] = "select"
  /\ ~CtxIsDone(ctxDone)
  /\ ~NewRequestFails(site)
  /\ \E a \in AnswersFor(site) : srv' = [srv EXCEPT ![w] = a]
  /\ pc' = [pc EXCEPT ![w] = "inflight"]
  /\ UNCHANGED <<params, mainpc, crashed, ctxDone, sigvars, chans, wg,
                 spawned, held, pending, watcherpc, collvars, pctvars, report, hist>>

\* Lines 98, 104: bodyBytes, _ := io.ReadAll(resp.Body); Bytes is
\* len(bodyBytes).  ReadAll returns the bytes it read before an error along
\* with the error, and the error is dropped.
BytesRead_ZeroOnError(a) == IF a.readErr THEN 0 ELSE a.read
BytesRead(a) == a.read

\* Lines 86-106: the results client.Do and io.ReadAll can produce for a
\* request bound to ctx.  Undisturbed, the request meets answer a.  Once ctx
\* is done the transport may abort it: Do returns the context error, or the
\* body read stops early and the error of ReadAll is dropped.
DoResults_AbortAnytime(a, done, d) ==
  {result(0, d, 0, "canceled")} \cup
  (IF a.kind = "fail"
     THEN {result(0, d, 0, "transport")}
     ELSE {result(a.status, d, k, "nil") : k \in 0..a.read})

DoResults(a, done, d) ==
  (IF a.kind = "fail"
     THEN {result(0, d, 0, "transport")}
     ELSE {result(a.status, d, BytesRead(a), "nil")})
  \cup
  (IF done
     THEN {result(0, d, 0, "canceled")} \cup
          (IF a.kind = "resp"
             THEN {result(a.status, d, k, "nil") : k \in 0..a.read}
             ELSE {})
     ELSE {})

Complete_QuitWhenCancelled(w) ==
  /\ ~crashed
  /\ pc[w] = "inflight"
  /\ IF ctxDone
       THEN /\ pc' = [pc EXCEPT ![w] = "stopped"]
            /\ held' = [held EXCEPT ![w] = 0]
            /\ srv' = [srv EXCEPT ![w] = NoAnswer]
            /\ wg' = WgDone(wg)
            /\ UNCHANGED pending
       ELSE /\ \E d \in Durations : \E r \in DoResults(srv[w], ctxDone, d) :
                 pending' = [pending EXCEPT ![w] = r]
            /\ pc' = [pc EXCEPT ![w] = "send"]
            /\ UNCHANGED <<wg, held, srv>>
  /\ UNCHANGED <<params, mainpc, crashed, ctxDone, sigvars, chans, spawned,
                 watcherpc, collvars, pctvars, report, hist>>

\* Lines 86-106: client.Do returns, the body is read, the result is built.
\* srv[w] is kept until the result is sent.
Complete(w) ==
  /\ ~crashed
  /\ pc[w] = "inflight"
  /\ \E d \in Durations : \E r \in DoResults(srv[w], ctxDone, d) :
       pending' = [pending EXCEPT ![w] = r]
  /\ pc' = [pc EXCEPT ![w] = "send"]
  /\ UNCHANGED <<params, mainpc, crashed, ctxDone, sigvars, chans, wg,
                 spawned, held, srv, watcherpc, collvars, pctvars, report, hist>>

\* Line 49: results := make(chan result, count_r)
ResultsCap_Unbuffered(n) == 0
ResultsCap(n) == n

\* Lines 78, 90, 101: results <- result{...}; continue.  The send blocks
\* while the buffer is full and panics on a closed channel.
Send(w) ==
  /\ ~crashed
  /\ pc[w] = "send"
  /\ IF resultsClosed
       THEN /\ crashed' = TRUE
            /\ UNCHANGED <<results, emitted, pc, held, srv, pending>>
       ELSE /\ Len(results) < ResultsCap(count_r)
            /\ results' = Append(results, pending[w])
            /\ emitted' = emitted + 1
            /\ pending' = [pending EXCEPT ![w] = NoResult]
            /\ held' = [held EXCEPT ![w] = 0]
            /\ srv' = [srv EXCEPT ![w] = NoAnswer]
            /\ pc' = [pc EXCEPT ![w] = AfterSend(pending[w])]
            /\ UNCHANGED crashed
  /\ UNCHANGED <<params, mainpc, ctxDone, sigvars, jobs, jobsClosed,
                 resultsClosed, wg, spawned, watcherpc, collvars, pctvars, report, hist>>

\* ----------------------------------------------------------------- watcher
\* wg.Wait() returns when the counter is zero.
WaitReturns_NoWait(n) == TRUE
WaitReturns(n) == n = 0

\* Lines 112-115: wg.Wait(); close(results).  Closing a closed channel panics.
CloseResults ==
  /\ ~crashed
  /\ watcherpc = "waiting"
  /\ WaitReturns(wg)
  /\ IF resultsClosed
       THEN crashed' = TRUE /\ UNCHANGED resultsClosed
       ELSE resultsClosed' = TRUE /\ UNCHANGED crashed
  /\ watcherpc' = "done"
  /\ UNCHANGED <<params, mainpc, ctxDone, sigvars, jobs, jobsClosed, results,
                 emitted, wg, spawned, workvars, collvars, pctvars, report, hist>>

\* --------------------------------------------------------------- collector
\* Line 142: res.Error != nil || res.StatusCode >= 400
IsFailed_StatusOnly(res) == res.StatusCode >= FailStatus
IsFailed(res) == res.Error # "nil" \/ res.StatusCode >= FailStatus

\* Lines 142-146: failedCount++ or successCount++; <<successCount, failedCount>>
Classify_TwoIfs(res, succ, fail) ==
  <<IF res.StatusCode >= FailStatus THEN succ ELSE succ + 1,
    IF IsFailed(res) THEN fail + 1 ELSE fail>>

Classify(res, succ, fail) ==
  IF IsFailed(res) THEN <<succ, fail + 1>> ELSE <<succ + 1, fail>>

Min(a, b) == IF a < b THEN a ELSE b
Max(a, b) == IF a > b THEN a ELSE b

\* Lines 128-147: one iteration of `for res := range results`.
Receive ==
  /\ ~crashed
  /\ mainpc = "collect"
  /\ results # <<>>
  /\ LET res == Head(results) IN
       /\ results' = Tail(results)
       /\ totalRequests' = totalRequests + 1
       /\ totalDuration' = totalDuration + res.Duration
       /\ totalBytes' = totalBytes + res.Bytes
       /\ minDuration' = Min(res.Duration, minDuration)
       /\ maxDuration' = Max(res.Duration, maxDuration)
       /\ durations' = Append(durations, res.Duration)
       /\ successCount' = Classify(res, successCount, failedCount)[1]
       /\ failedCount' = Classify(res, successCount, failedCount)[2]
  /\ UNCHANGED <<params, mainpc, crashed, ctxDone, sigvars, jobs, jobsClosed,
                 resultsClosed, emitted, wg, spawned, workvars, watcherpc,
                 pctvars, report, hist>>

\* Line 128: results is closed and empty, the range loop ends.
CollectEnd ==
  /\ ~crashed
  /\ mainpc = "collect"
  /\ results = <<>>
  /\ resultsClosed
  /\ mainpc' = "stats"
  /\ UNCHANGED <<params, crashed, ctxDone, sigvars, chans, wg, spawned,
                 workvars, watcherpc, collvars, pctvars, report, hist>>

\* int(float64(len(durations)) * 0.pct), an index into a zero-based slice
PctIndex_RoundUp(n, pct) == (n * pct + 99) \div 100
PctIndex(n, pct) == (n * pct) \div 100

\* durations[int(float64(len(durations)) * 0.pct)]
Percentile(sorted, pct) == sorted[PctIndex(Len(sorted), pct) + 1]

\* Line 152: if len(durations) > 0
HasDurations_Always(n) == TRUE
HasDurations(n) == n > 0

\* Line 153: slices.Sort(durations)
SortDurations_Unsorted(s) == s
SortDurations(s) == SortSeq(s, LAMBDA a, b : a < b)

\* Lines 155-158: every index used lies inside the slice (Go panics otherwise).
IndicesInRange(n) ==
  \A pct \in {50, 90, 95, 99} : PctIndex(n, pct) \in 0..(n - 1)

\* Lines 149-159: sort the durations and pick the percentiles; an index out
\* of range is a runtime panic, during which the deferred cancel() runs.
ComputeStats ==
  /\ ~crashed
  /\ mainpc = "stats"
  /\ IF HasDurations(Len(durations))
       THEN IF IndicesInRange(Len(durations))
              THEN LET sorted == SortDurations(durations) IN
                     /\ durations' = sorted
                     /\ p50' = Percentile(sorted, 50)
                     /\ p90' = Percentile(sorted, 90)
                     /\ p95' = Percentile(sorted, 95)
                     /\ p99' = Percentile(sorted, 99)
                     /\ mainpc' = "report"
                     /\ UNCHANGED <<crashed, ctxDone>>
              ELSE /\ crashed' = TRUE
                   /\ ctxDone' = TRUE
                   /\ mainpc' = "panic"
                   /\ UNCHANGED <<durations, p50, p90, p95, p99>>
       ELSE /\ mainpc' = "report"
            /\ UNCHANGED <<durations, p50, p90, p95, p99, crashed, ctxDone>>
  /\ UNCHANGED <<params, sigvars, chans, wg, spawned, workvars, watcherpc,
                 totalRequests, successCount, failedCount, totalDuration,
                 minDuration, maxDuration, totalBytes, report, hist>>

\* Line 169: if totalRequests > 0
ShowsLatency_Always(n) == TRUE
ShowsLatency(n) == n > 0

\* Lines 161-186: the lines Test prints, given the number of results and the
\* elapsed time of the run.
ReportLines(n, elapsed) ==
  {"time", "total", "successful", "failed", "rps"} \cup
  (IF ShowsLatency(n)
     THEN {"avg", "min", "max", "p50", "p90", "p95", "p99", "rate"} \cup
          (IF elapsed > 0 THEN {"throughput"} ELSE {})
     ELSE {})

\* Lines 149, 161-188, 39: measure the elapsed time, print the report and
\* return; deferred cancel().  totalDuration / time.Duration(totalRequests) is
\* an integer division and panics on a zero divisor; the success rate is in
\* tenths of a percent (%.1f).
Report ==
  /\ ~crashed
  /\ mainpc = "report"
  /\ ctxDone' = TRUE
  /\ IF ShowsLatency(totalRequests) /\ totalRequests = 0
       THEN /\ crashed' = TRUE
            /\ mainpc' = "panic"
            /\ UNCHANGED report
       ELSE /\ \E elapsed \in 0..MaxElapsed :
                 report' =
                   IF ShowsLatency(totalRequests)
                     THEN [lines |-> ReportLines(totalRequests, elapsed),
                           avg |-> totalDuration \div totalRequests,
                           rate |-> (successCount * 1000) \div totalRequests]
                     ELSE [lines |-> ReportLines(totalRequests, elapsed)]
            /\ mainpc' = "returned"
            /\ UNCHANGED crashed
  /\ UNCHANGED <<params, sigvars, chans, wg, spawned, workvars, watcherpc,
                 collvars, pctvars, hist>>

\* ----------------------------------------------------------- specification
Next ==
  \/ Reject
  \/ Start
  \/ Interrupt
  \/ SigHandler
  \/ SpawnWorker
  \/ SpawnWatcher
  \/ \E w \in Workers : TakeJob(w)
  \/ \E w \in Workers : JobsDrained(w)
  \/ \E w \in Workers : ObserveCancel(w)
  \/ \E w \in Workers : BuildFails(w)
  \/ \E w \in Workers : BeginRequest(w)
  \/ \E w \in Workers : Complete(w)
  \/ \E w \in Workers : Send(w)
  \/ CloseResults
  \/ Receive
  \/ CollectEnd
  \/ ComputeStats
  \/ Report

Spec == Init /\ [][Next]_vars

\* The statistics alone, lines 149-188, on duration lists longer than the
\* runs above produce.  The initial states are those the collector loop leaves
\* behind when one worker has taken every token and every request failed in
\* the transport after some duration: the sums, minimum and maximum Receive
\* accumulates over the list (computed by halves to keep the recursion flat).
RECURSIVE Collected(_)
Collected(ds) ==
  IF ds = <<>>
    THEN [total |-> 0, min |-> Hour, max |-> 0]
    ELSE IF Len(ds) = 1
      THEN [total |-> ds[1], min |-> Min(ds[1], Hour), max |-> Max(ds[1], 0)]
      ELSE LET h == Len(ds) \div 2
               a == Collected(SubSeq(ds, 1, h))
               b == Collected(SubSeq(ds, h + 1, Len(ds)))
           IN  [total |-> a.total + b.total,
                min   |-> Min(b.min, a.min),
                max   |-> Max(b.max, a.max)]

\* Every list of 1..MaxLen durations, and for each greater length up to
\* MaxLongLen one list that arrives out of order.
DurationLists ==
  UNION {[1..n -> 1..MaxListDuration] : n \in 1..MaxLen} \cup
  {[i \in 1..n |-> ((n - i) % MaxListDuration) + 1] :
      n \in (MaxLen + 1)..MaxLongLen}

StatsInit ==
  /\ durations \in DurationLists
  /\ site = "http://a.com"
  /\ count_p = 1
  /\ count_r = Len(durations)
  /\ mainpc = "stats"
  /\ crashed = FALSE
  /\ ctxDone = FALSE
  /\ sigChan = 0
  /\ sigpc = "waiting"
  /\ jobs = <<>>
  /\ jobsClosed = TRUE
  /\ results = <<>>
  /\ resultsClosed = TRUE
  /\ wg = 0
  /\ spawned = 1
  /\ pc = [w \in Workers |-> IF w = 1 THEN "done" ELSE "idle"]
  /\ held = [w \in Workers |-> 0]
  /\ srv = [w \in Workers |-> NoAnswer]
  /\ pending = [w \in Workers |-> NoResult]
  /\ watcherpc = "done"
  /\ emitted = Len(durations)
  /\ totalRequests = Len(durations)
  /\ successCount = 0
  /\ failedCount = Len(durations)
  /\ totalDuration = Collected(durations).total
  /\ minDuration = Collected(durations).min
  /\ maxDuration = Collected(durations).max
  /\ totalBytes = 0
  /\ p50 = 0 /\ p90 = 0 /\ p95 = 0 /\ p99 = 0
  /\ report = NoReport
  /\ inflightAtCancel = 0
  /\ takenAfterCancel = [w \in Workers |-> 0]

StatsNext == ComputeStats \/ Report

StatsSpec == StatsInit /\ [][StatsNext]_vars

\* Fairness: the Go scheduler runs every runnable goroutine, and every request
\* returns (client.Timeout bounds it).  Interrupts are the environment's.
MainStep ==
  Reject \/ Start \/ SpawnWorker \/ SpawnWatcher \/ Receive \/ CollectEnd
    \/ ComputeStats \/ Report

WorkerStep(w) ==
  TakeJob(w) \/ JobsDrained(w) \/ ObserveCancel(w) \/ BuildFails(w)
    \/ BeginRequest(w) \/ Complete(w) \/ Send(w)

FairSpec ==
  /\ Spec
  /\ WF_vars(MainStep)
  /\ WF_vars(SigHandler)
  /\ WF_vars(CloseResults)
  /\ \A w \in Workers : WF_vars(WorkerStep(w))

\* The same scheduling with a collector that may stall for ever: the main
\* goroutine is only sure to run up to the start of the watcher.
WorkersFairSpec ==
  /\ Spec
  /\ WF_vars(Start \/ SpawnWorker \/ SpawnWatcher)
  /\ WF_vars(CloseResults)
  /\ \A w \in Workers : WF_vars(WorkerStep(w))

\* ------------------------------------------------------------- vocabulary
\* The arguments pass the entry check with a positive pool and request count.
ValidInputs == site # "" /\ count_p >= 1 /\ count_r >= 1

\* The core has started: the jobs channel is filled and closed.
Started == jobsClosed

\* Tokens received from jobs so far.
TokensTaken == count_r - Len(jobs)

\* Workers that hold a token whose result is not sent yet.
Holding == {w \in Workers : held[w] # 0}

\* Workers that left at `case <-ctx.Done(): return`.
Stopped == {w \in Workers : pc[w] = "stopped"}

\* The spawning loop is over and every worker goroutine has returned.
AllExited ==
  /\ mainpc \in {"collect", "stats", "report", "returned"}
  /\ Started
  /\ \A w \in Workers : pc[w] \in {"idle", "done", "stopped"}

\* The interrupt goroutine has called cancel().
Interrupted == sigpc = "done"

\* Run-level state: 0 NotStarted, 1 Running (workers being spawned or active),
\* 2 Draining (every worker returned, the collector still in its loop),
\* 3 Completed (the loop ended and the statistics are computed).
Phase ==
  CASE mainpc \in {"entry", "panic"} -> 0
    [] mainpc \in {"report", "returned"} /\ Started -> 3
    [] mainpc \in {"collect", "stats"} /\ AllExited -> 2
    [] OTHER -> IF Started THEN 1 ELSE 0

Completed == Phase = 3

\* ------------------------------------------------------------------ claims

\* C1: for count_r >= 1 and count_p >= 1, when the collector loop ends and no
\* cancellation has been triggered, it has received exactly count_r results,
\* whatever the interleaving and the mix of successes and errors.
C1_Conservation ==
  (ValidInputs /\ mainpc \in {"stats", "report"} /\ ~ctxDone)
    => totalRequests = count_r

\* C1 witness: an uncancelled run with two workers ends with all the results
\* collected, successes and failures mixed.
C1_Witness ==
  /\ mainpc = "report" /\ ~ctxDone /\ count_p = MaxWorkers
  /\ count_r = MaxRequests /\ totalRequests = MaxRequests
  /\ successCount >= 1 /\ failedCount >= 1

\* C2: with or without cancellation, the tokens taken from jobs never exceed
\* count_r, every token is delivered to one worker only (a token a worker
\* holds is gone from the buffer and held by nobody else), and so the requests
\* executed and the results collected never exceed count_r.
C2_AtMostN ==
  Started =>
    /\ TokensTaken \in 0..count_r
    /\ TokensTaken = emitted + Cardinality(Holding) + Cardinality(Stopped)
    /\ \A v, w \in Holding : v # w => held[v] # held[w]
    /\ \A w \in Holding : \A i \in DOMAIN jobs : jobs[i] # held[w]
    /\ \A i, j \in DOMAIN jobs : i # j => jobs[i] # jobs[j]
    /\ emitted + Cardinality(Holding) <= count_r
    /\ totalRequests <= emitted

\* C2 witness: after a cancellation, two workers hold different tokens.
C2_Witness ==
  /\ Interrupted /\ Cardinality(Holding) = 2
  /\ \E v, w \in Holding : held[v] # held[w]

\* C3: under fair scheduling, with every request returning, a run started
\* with valid inputs reaches Completed (workers exited, results closed,
\* collector loop over, statistics computed), whether or not cancellation is
\* triggered and whenever it is; and the run-level state never goes back.
C3_RunCompletes ==
  /\ ValidInputs ~> (Completed /\ AllExited /\ resultsClosed)
  /\ [][Phase' >= Phase]_vars

\* C3 witness: a run cancelled while a request was in flight is Completed.
C3_Witness ==
  /\ ValidInputs /\ Completed /\ Interrupted /\ Cardinality(Stopped) >= 1
  /\ totalRequests >= 1 /\ totalRequests < count_r

\* C4: results is closed exactly once and only after every worker returned:
\* no send hits the closed channel (the only panic is the one of make), the
\* channel is closed iff the watcher has run its close, every result sent is
\* either still buffered or received once, and when the collector has seen
\* the close it has received every result that was sent.
C4_ClosedOnceAfterWorkers ==
  /\ crashed => mainpc = "panic"
  /\ resultsClosed <=> watcherpc = "done"
  /\ resultsClosed => (AllExited /\ wg = 0)
  /\ emitted = Len(results) + totalRequests
  /\ Len(durations) = totalRequests
  /\ (Started /\ mainpc \in {"stats", "report", "returned"}) =>
       (resultsClosed /\ results = <<>> /\ totalRequests = emitted)

\* C4 witness: two workers have run, the channel is closed with a result
\* still buffered, and the collector has already received another.
C4_Witness ==
  /\ resultsClosed /\ mainpc = "collect" /\ count_p = 2
  /\ Len(results) >= 1 /\ totalRequests >= 1

Undisturbed(r, a) ==
  IF a.kind = "fail"
    THEN r.StatusCode = 0 /\ r.Bytes = 0 /\ r.Error = "transport"
    ELSE r.StatusCode = a.status /\ r.Bytes = a.read /\ r.Error = "nil"

C8_CountsAddUp == successCount + failedCount = totalRequests

\* C8 witness: the run is over with successes and failures both counted.
C8_Witness ==
  /\ mainpc = "returned" /\ totalRequests = count_r
  /\ successCount >= 1 /\ failedCount >= 1

\* C9: the collector counts a result as failed when its error is set,
\* whatever its status, and when its status is >= 400 with no error set; it
\* counts every other result (no error, status < 400) as successful.
C9_Classification ==
  [][(mainpc = "collect" /\ totalRequests' = totalRequests + 1) =>
       LET res == Head(results) IN
         IF res.Error # "nil" \/ (res.Error = "nil" /\ res.StatusCode >= 400)
           THEN failedCount' = failedCount + 1 /\ successCount' = successCount
           ELSE successCount' = successCount + 1 /\ failedCount' = failedCount
    ]_vars

\* C9 witness: the collector has counted as failed a result that carried
\* body bytes (a response with status 400 and no error) and is about to
\* receive a result with an error set.
C9_Witness ==
  /\ mainpc = "collect" /\ failedCount = 1 /\ successCount = 0
  /\ totalBytes >= 1
  /\ results # <<>> /\ Head(results).Error # "nil"

\* Error kinds a request can end with.
IsError(r) == r.Error \in {"build", "transport", "canceled"}

\* C10: a failed request yields a result with status 0, zero bytes and the
\* error set; the worker sends it once, keeps running and goes back for the
\* next token without putting the token back; the step changes no other
\* worker, and no request error crashes the run.
C10_ErrorIsLocal ==
  /\ [](/\ \A w \in Workers :
             IsError(pending[w]) =>
               pending[w].StatusCode = 0 /\ pending[w].Bytes = 0
        /\ \A i \in DOMAIN results :
             IsError(results[i]) =>
               results[i].StatusCode = 0 /\ results[i].Bytes = 0
        /\ crashed => mainpc = "panic")
  /\ [][\A w \in Workers :
          (pc[w] = "send" /\ IsError(pending[w]) /\ pc'[w] # "send") =>
            /\ pc'[w] = "range"
            /\ results' = Append(results, pending[w])
            /\ jobs' = jobs /\ wg' = wg
            /\ \A v \in Workers \ {w} : pc'[v] = pc[v]]_vars

\* C10 witness: a worker whose earlier request failed (its result is in the
\* channel or collected as failed) is in flight with a later token while the
\* other worker is still running.
C10_Witness ==
  \E w \in Workers : \E v \in Workers \ {w} :
    /\ pc[w] = "inflight" /\ held[w] >= 2 /\ pc[v] = "range"
    /\ emitted = 1 /\ held[v] = 0
    /\ \/ results # <<>> /\ IsError(Head(results))
       \/ failedCount = 1 /\ totalBytes = 0 /\ results = <<>>

\* C11: a run cancelled before any result is produced ends with total,
\* successful and failed all 0, and computes no percentile, average, min, max
\* or throughput: the empty duration list is never indexed, the zero count is
\* never a divisor (no panic), and the report has only the count lines.
C11_ZeroOutcomes ==
  (Started /\ emitted = 0) =>
    /\ ~crashed
    /\ mainpc \in {"report", "returned"} =>
         /\ totalRequests = 0 /\ successCount = 0 /\ failedCount = 0
         /\ durations = <<>>
         /\ p50 = 0 /\ p90 = 0 /\ p95 = 0 /\ p99 = 0
         /\ minDuration = Hour /\ maxDuration = 0
    /\ mainpc = "returned" =>
         /\ report.lines = {"time", "total", "successful", "failed", "rps"}
         /\ DOMAIN report = {"lines"}

\* C11 witness: with valid inputs every worker left at the cancellation
\* branch, nothing was sent, and Test has printed its report and returned.
C11_Witness ==
  /\ ValidInputs /\ Interrupted /\ mainpc = "returned" /\ emitted = 0
  /\ Cardinality(Stopped) = count_p /\ report # NoReport

\* C12: for every non-empty list of collected durations the reported values
\* satisfy min <= p50 <= p90 <= p95 <= p99 <= max.
C12_PercentilesOrdered ==
  (mainpc \in {"report", "returned"} /\ totalRequests > 0) =>
    /\ minDuration <= p50 /\ p50 <= p90 /\ p90 <= p95 /\ p95 <= p99
    /\ p99 <= maxDuration

\* C12 witness: a list that arrived unsorted, long enough for p50 and p90 to
\* be different elements, is reported with p50 below p90.
C12_Witness ==
  /\ mainpc = "returned" /\ totalRequests >= 3
  /\ minDuration = p50 /\ p50 < p90 /\ p99 = maxDuration
  /\ "p50" \in report.lines

\* C16: for every length len >= 1 of the duration list the percentile indices
\* are floor(0.50*len), floor(0.90*len), floor(0.95*len) and floor(0.99*len),
\* each within 0..len-1: the unclamped indexing never panics and each
\* percentile is the element of the sorted list at that (zero-based) index.
C16_IndicesInBounds ==
  /\ mainpc = "panic" => ~Started
  /\ (mainpc \in {"report", "returned"} /\ Len(durations) >= 1) =>
       LET len == Len(durations)
           i50 == (50 * len) \div 100
           i90 == (90 * len) \div 100
           i95 == (95 * len) \div 100
           i99 == (99 * len) \div 100
       IN  /\ {i50, i90, i95, i99} \subseteq 0..(len - 1)
           /\ i99 # len
           /\ p50 = durations[i50 + 1] /\ p90 = durations[i90 + 1]
           /\ p95 = durations[i95 + 1] /\ p99 = durations[i99 + 1]

\* C16 witness: the percentiles of a list of the greatest length drawn were
\* picked without a panic, p99 being the element before the last.
C16_Witness ==
  /\ mainpc = "report" /\ ~crashed /\ Len(durations) = MaxLongLen
  /\ p99 = durations[MaxLongLen - 1] /\ p50 < p99

\* C13: in a run where cancellation is triggered, the results collected are
\* at most count_r and at least the number of workers that had a request in
\* flight when the signal was triggered; each token taken is either dropped
\* at the cancellation branch or counted once; and, under fair scheduling,
\* the run still prints its report and returns.
C13_CancelledRunBounds ==
  /\ []((Started /\ Interrupted /\ mainpc \in {"stats", "report", "returned"})
          => /\ inflightAtCancel <= totalRequests
             /\ totalRequests <= count_r
             /\ totalRequests + Cardinality(Stopped) = TokensTaken)
  /\ (ValidInputs /\ Interrupted) ~> (mainpc = "returned" /\ report # NoReport)

\* C13 witness: one request was in flight when the signal came, its result is
\* the only one collected, another token was dropped, and Test has returned.
C13_Witness ==
  /\ mainpc = "returned" /\ Interrupted /\ inflightAtCancel = 1
  /\ totalRequests = 1 /\ count_r >= 2 /\ Stopped # {}

\* C14: Test starts the core only when the target is non-empty, the
\* concurrency >= 1 and the request count >= 1; for any other input it
\* returns before the core starts: no channel, no goroutine, no request, and
\* no panic.
C14_Original ==
  ~(site # "" /\ count_p >= 1 /\ count_r >= 1) =>
    /\ mainpc \in {"entry", "returned"}
    /\ ~crashed /\ ~Started
    /\ sigpc = "none" /\ watcherpc = "none"
    /\ \A w \in Workers : pc[w] = "idle"

\* C15: the signal, once triggered, stays triggered, and every worker
\* observes it within one iteration: a worker takes at most one token while
\* the signal is set, and after taking it can only leave at the cancellation
\* branch, whether or not tokens remain in jobs.
C15_ObservedWithinOneIteration ==
  /\ [](\A w \in Workers :
          /\ takenAfterCancel[w] <= 1
          /\ takenAfterCancel[w] = 1 =>
               /\ pc[w] \in {"select", "stopped"}
               /\ pc[w] = "select" =>
                    /\ ENABLED ObserveCancel(w)
                    /\ ~ENABLED BeginRequest(w)
                    /\ ~ENABLED BuildFails(w))
  /\ [][ctxDone => ctxDone']_vars
  /\ [][\A w \in Workers : pc[w] = "stopped" => pc'[w] = "stopped"]_vars

\* C15 witness: after the trigger a worker has taken one token and left at
\* the cancellation branch while a token remains in jobs.
C15_Witness ==
  \E w \in Workers :
    /\ Interrupted /\ ctxDone
    /\ takenAfterCancel[w] = 1 /\ pc[w] = "stopped" /\ jobs # <<>>

\* The body read of worker w's request met an error after the headers had
\* been received, and the result is about to be sent.
ReadFailed(w) ==
  /\ pc[w] = "send" /\ srv[w].kind = "resp" /\ srv[w].readErr
  /\ pending[w].Error = "nil"

C18_Original ==
  [][(mainpc = "entry" /\ mainpc' \notin {"entry", "returned"}) =>
       site' = IF SchemeSupported(site) THEN site ELSE "http://" \o site]_vars

\* C19: the results buffered never exceed the capacity count_r because at
\* most count_r results are ever sent; a worker at a send is never blocked,
\* nor is any running worker or the watcher waiting on the collector; and
\* with a collector that never receives, all workers still exit and results
\* is closed.
C19_SendNeverBlocks ==
  /\ [](Started =>
          /\ Len(results) <= count_r
          /\ emitted <= count_r
          /\ \A w \in Workers :
               /\ pc[w] = "send" => (Len(results) < count_r /\ ENABLED Send(w))
               /\ pc[w] \in {"range", "select", "inflight", "send"} =>
                    ENABLED WorkerStep(w)
          /\ (watcherpc = "waiting" /\ wg = 0) => ENABLED CloseResults)
  /\ Started ~> (AllExited /\ resultsClosed)

\* C19 witness: every worker has exited and results is closed with all
\* count_r results buffered, the collector having received none.
C19_Witness ==
  /\ ValidInputs /\ count_r = MaxRequests /\ count_p = MaxWorkers
  /\ AllExited /\ resultsClosed /\ mainpc = "collect"
  /\ totalRequests = 0 /\ Len(results) = count_r /\ emitted = count_r

\* C20: in every state results emitted <= tokens taken <= count_r; once all
\* workers have exited the tokens taken without a result are one per worker
\* that left at the cancellation branch, hence at most the workers started
\* (count_p for valid inputs), and none when no cancellation was triggered.
C20_DroppedAtMostP ==
  Started =>
    /\ emitted <= TokensTaken
    /\ TokensTaken <= count_r
    /\ AllExited =>
         /\ TokensTaken - emitted = Cardinality(Stopped)
         /\ TokensTaken - emitted <= spawned
         /\ ValidInputs => TokensTaken - emitted <= count_p
         /\ ~Interrupted => TokensTaken - emitted = 0

\* C20 witness: after a cancellation every one of the count_p workers has
\* left having dropped one token, and no result was emitted.
C20_Witness ==
  /\ AllExited /\ Interrupted /\ count_p = MaxWorkers
  /\ TokensTaken - emitted = count_p /\ emitted = 0

====
